---- MODULE Spec2Model ----
(***************************************************************************)
(* neo3 Settings (src/neo3/__init__.py) and the consensus payload codec    *)
(* (src/neo3/network/payloads/consensus.py).                               *)
(*                                                                         *)
(* A Python dict / namespace __dict__ is a function from key strings to    *)
(* values.  A nested mapping is a record [ns, items]: ns = FALSE for a     *)
(* plain dict of a JSON document, ns = TRUE once _convert has wrapped it   *)
(* in an IndexableNamespace (attribute access works on the latter only).   *)
(* An exception is a record [type, msg]; type "none" means no exception.   *)
(***************************************************************************)
EXTENDS Integers, Sequences, FiniteSets, TLC

VARIABLES
    dict,       \* settings.__dict__ (instance attributes of the Settings object)
    env,        \* fields of the ConsensusPayload object the caller holds
    res,        \* outcome of the last operation (what its caller observed)
    prevCache,  \* history: the committee cache as it was before the last operation
    fresh,      \* history: reset happened, and no register / committee call since
    hashLog,    \* history: the two most recent successful hash() calls
    pc,         \* per thread: position inside the operation it runs
    loc,        \* per thread: local variables of the operation it runs
    gen         \* history: resets and registers done, committees configured since the reset

vars == <<dict, env, res, prevCache, fresh, hashLog, pc, loc, gen>>

----------------------------------------------------------------------------
(* Bounds of the model *)

MaxCount == 2        \* validators_count values 0..MaxCount in merged documents
MaxIndex == 2        \* validator_index values 0..MaxIndex in envelopes
MaxData == 1         \* length of an envelope's data blob
MaxValidators == 2   \* length of the next-block validator list of a snapshot
NumReaders == 2      \* threads calling standby_committee
MaxResets == 1       \* resets the administrating thread performs
MaxRegisters == 1    \* registers the administrating thread performs

----------------------------------------------------------------------------
(* Exceptions and small helpers *)

NoExc == [type |-> "none", msg |-> ""]
Exc(t, m) == [type |-> t, msg |-> m]

Dict(f) == [ns |-> FALSE, items |-> f]
Namespace(f) == [ns |-> TRUE, items |-> f]
EmptyMap == [k \in {} |-> 0]

\* getattr(v, k) succeeds: v is a namespace holding k (a plain dict has no attributes)
HasAttr(v, k) == v.ns /\ k \in DOMAIN v.items

\* dict.update(other)
Update(d, other) ==
    [k \in DOMAIN d \cup DOMAIN other |-> IF k \in DOMAIN other THEN other[k] ELSE d[k]]

----------------------------------------------------------------------------
(* Settings.default_settings *)

DefaultKey == "02158c4a4810fa2a6a12f7d33d835680429e1a68ae61161c5b3fbc98c7f1f17765"
DefaultMagic == 5195086

ImplModule == <<"neo3", "storage", "implementations">>

default_providers ==
    Dict([memory |-> Dict([class_path |-> ImplModule \o <<"MemoryDB">>,
                            options |-> Dict(EmptyMap)]),
          leveldb |-> Dict([class_path |-> ImplModule \o <<"LevelDB">>,
                             options |-> Dict([path |-> "/tmp/neo3/"])]),
          postgresql |-> Dict([class_path |-> ImplModule \o <<"PostgresDB">>,
                                options |-> Dict([host |-> "127.0.0.1", port |-> 5432])])])

default_network ==
    Dict([magic |-> DefaultMagic, seedlist |-> <<>>, validators_count |-> 1,
          standby_committee |-> <<DefaultKey>>])

default_storage ==
    Dict([use_default |-> TRUE, default_provider |-> "memory",
          providers |-> default_providers])

default_settings ==
    Dict([network |-> default_network,
          storage |-> default_storage,
          native_contract_activation |-> Dict(EmptyMap)])

----------------------------------------------------------------------------
(* Settings._convert, from_json, register, reset_settings_to_default *)

\* the keys whose values are mappings in the documents of this model
\* (isinstance(v, dict) is decided by the value in Python; here by ns = FALSE
\* on the keys that carry mappings)
MappingKeys == {"network", "storage", "native_contract_activation", "providers",
                "options", "memory", "leveldb", "postgresql", "broken", "nomodule"}

IsDict(k, v) == k \in MappingKeys /\ ~v.ns

\* _convert(what, where) with what = where = a __dict__: every dict value becomes
\* an IndexableNamespace and is converted in turn; other values stay
RECURSIVE _convert(_)
_convert(d) ==
    [k \in DOMAIN d |->
        IF IsDict(k, d[k]) THEN Namespace(_convert(d[k].items)) ELSE d[k]]

\* from_json: o = cls(**json); o._convert(o.__dict__, o.__dict__); the new __dict__
from_json(json) == _convert(json.items)

\* register that also drops the cached committee
register_invalidating(d, json) ==
    _convert(Update([k \in DOMAIN d \ {"_cached_standby_committee"} |-> d[k]], json.items))

\* register: self.__dict__.update(json); self._convert(self.__dict__, self.__dict__)
register(d, json) == _convert(Update(d, json.items))

\* reset_settings_to_default: __dict__.clear(); __dict__.update(from_json(defaults))
reset_settings_to_default(d) == Update(EmptyMap, from_json(default_settings))

----------------------------------------------------------------------------
(* Settings.standby_committee / standby_validators *)

CacheKey == "_cached_standby_committee"

\* self._cached_standby_committee: the instance attribute, else the class attribute None
Cache(d) ==
    IF CacheKey \in DOMAIN d THEN [present |-> TRUE, value |-> d[CacheKey]]
    ELSE [present |-> FALSE, value |-> <<>>]

\* hex strings of compressed public keys; Key2Upper spells Key2 in upper case
Key2 == "02103a7f7dd016558597f7960d27c516a4394fd968b9e65155eb4b013e4040406e"
Key2Upper == "02103A7F7DD016558597F7960D27C516A4394FD968B9E65155EB4B013E4040406E"
BadHex == "zz"

\* binascii.unhexlify(p) succeeds and ECPoint.deserialize_from_bytes accepts it
HexOk(p) == p \in {DefaultKey, Key2, Key2Upper}

\* cryptography.ECPoint.deserialize_from_bytes(binascii.unhexlify(p))
ECPoint(p) == [ecpoint |-> IF p = Key2Upper THEN Key2 ELSE p]

\* lines 124-126: the loop decoding self.network.standby_committee: [exc, value]
decode_committee(d) ==
    IF "network" \notin DOMAIN d
        THEN [exc |-> Exc("AttributeError", "network"), value |-> <<>>]
    ELSE IF ~HasAttr(d["network"], "standby_committee")
        THEN [exc |-> Exc("AttributeError", "standby_committee"), value |-> <<>>]
    ELSE LET keys == d["network"].items["standby_committee"] IN
        IF \E i \in 1..Len(keys) : ~HexOk(keys[i])
        THEN [exc |-> Exc("binascii.Error", "unhexlify"), value |-> <<>>]
        ELSE [exc |-> NoExc, value |-> [i \in 1..Len(keys) |-> ECPoint(keys[i])]]

\* the property standby_committee: [dict after the call, exception, value returned]
standby_committee(d) ==
    IF Cache(d).present THEN [dict |-> d, exc |-> NoExc, value |-> Cache(d).value]
    ELSE LET points == decode_committee(d) IN
        IF points.exc # NoExc THEN [dict |-> d, exc |-> points.exc, value |-> <<>>]
        ELSE [dict |-> Update(d, CacheKey :> points.value), exc |-> NoExc,
              value |-> points.value]

\* list[:n] of Python
PySlice(list, n) ==
    IF n >= 0 THEN SubSeq(list, 1, IF n < Len(list) THEN n ELSE Len(list))
    ELSE SubSeq(list, 1, IF Len(list) + n > 0 THEN Len(list) + n ELSE 0)

\* the property standby_validators: self.standby_committee[:self.network.validators_count]
standby_validators(d) ==
    LET c == standby_committee(d) IN
    IF c.exc # NoExc THEN c
    ELSE IF "network" \notin DOMAIN c.dict
        THEN [dict |-> c.dict, exc |-> Exc("AttributeError", "network"), value |-> <<>>]
    ELSE IF ~HasAttr(c.dict["network"], "validators_count")
        THEN [dict |-> c.dict, exc |-> Exc("AttributeError", "validators_count"), value |-> <<>>]
    ELSE [dict |-> c.dict, exc |-> NoExc,
          value |-> PySlice(c.value, c.dict["network"].items["validators_count"])]

----------------------------------------------------------------------------
(* load_class_from_path and Settings.database *)

None == [kind |-> "None"]

\* what importlib.import_module / getattr find in the running process
ImportableModules == {ImplModule}
ModuleClasses == {"MemoryDB", "LevelDB"}

Front(s) == SubSeq(s, 1, Len(s) - 1)
Last(s) == s[Len(s)]

\* load_class_from_path: path_and_class.split('.') is the sequence of components
load_class_from_path(path_and_class) ==
    IF Len(path_and_class) = 0 \/ Front(path_and_class) \notin ImportableModules
        THEN [exc |-> Exc("ValueError", "Failed to import module"), class |-> ""]
    ELSE IF Last(path_and_class) \notin ModuleClasses
        THEN [exc |-> Exc("ValueError", "Failed to get class"), class |-> ""]
    ELSE [exc |-> NoExc, class |-> Last(path_and_class)]

\* the body of the try block of the property database; ctor_ok: db_class(options)
\* returns instead of raising
database_try(d, ctor_ok) ==
    IF "db" \in DOMAIN d THEN [exc |-> NoExc, value |-> d["db"]]
    ELSE IF "storage" \notin DOMAIN d
        THEN [exc |-> Exc("AttributeError", "storage"), value |-> None]
    ELSE LET st == d["storage"] IN
    IF ~HasAttr(st, "use_default")
        THEN [exc |-> Exc("AttributeError", "use_default"), value |-> None]
    ELSE IF ~st.items["use_default"] THEN [exc |-> NoExc, value |-> None]
    ELSE IF ~HasAttr(st, "default_provider")
        THEN [exc |-> Exc("AttributeError", "default_provider"), value |-> None]
    ELSE IF ~HasAttr(st, "providers")
        THEN [exc |-> Exc("AttributeError", "providers"), value |-> None]
    ELSE IF st.items["default_provider"] \notin DOMAIN st.items["providers"].items
        THEN [exc |-> Exc("KeyError", st.items["default_provider"]), value |-> None]
    ELSE LET provider == st.items["providers"].items[st.items["default_provider"]] IN
    IF ~HasAttr(provider, "class_path")
        THEN [exc |-> Exc("AttributeError", "class_path"), value |-> None]
    ELSE LET db_class == load_class_from_path(provider.items["class_path"]) IN
    IF db_class.exc # NoExc THEN [exc |-> db_class.exc, value |-> None]
    ELSE IF ~HasAttr(provider, "options")
        THEN [exc |-> Exc("AttributeError", "options"), value |-> None]
    ELSE IF ~ctor_ok THEN [exc |-> Exc("Exception", "db_class"), value |-> None]
    ELSE [exc |-> NoExc,
          value |-> [kind |-> "instance", class |-> db_class.class,
                     options |-> provider.items["options"].items]]

\* database without its except clause: the exception reaches the caller
database_no_except(d, ctor_ok) == database_try(d, ctor_ok)

\* the property database: try: ... except Exception: return None
database(d, ctor_ok) ==
    LET r == database_try(d, ctor_ok) IN
    IF r.exc # NoExc THEN [exc |-> NoExc, value |-> None] ELSE r

----------------------------------------------------------------------------
(* Documents given to from_json / register *)

CommitteeLists == {<<DefaultKey>>, <<Key2Upper, DefaultKey>>, <<BadHex>>}

NetworkDoc(magic, count, keys) ==
    Dict([network |-> Dict([magic |-> magic, seedlist |-> <<>>,
                            validators_count |-> count, standby_committee |-> keys])])

\* a network section that names the magic only
MagicOnlyDoc == Dict([network |-> Dict([magic |-> 7])])

NetworkDocs ==
    {NetworkDoc(DefaultMagic, c, k) : c \in 0..MaxCount, k \in CommitteeLists}
        \cup {MagicOnlyDoc}

StorageDoc(use_default, name, providers) ==
    Dict([storage |-> Dict([use_default |-> use_default, default_provider |-> name,
                            providers |-> providers])])

odd_providers ==
    Dict([nomodule |-> Dict([class_path |-> <<"nowhere", "DB">>,
                              options |-> Dict(EmptyMap)]),
          broken |-> Dict([class_path |-> ImplModule \o <<"MemoryDB">>])])

StorageDocs ==
    {StorageDoc(FALSE, "memory", default_providers),
     StorageDoc(TRUE, "leveldb", default_providers),
     StorageDoc(TRUE, "postgresql", default_providers),
     StorageDoc(TRUE, "redis", default_providers),
     StorageDoc(TRUE, "nomodule", odd_providers),
     StorageDoc(TRUE, "broken", odd_providers),
     StorageDoc(FALSE, "redis", odd_providers),
     Dict([storage |-> Dict([use_default |-> TRUE])])}

\* documents a Settings object is constructed from
InitDocs == {default_settings, Dict([network |-> default_network])}

InjectedDb == [kind |-> "instance", class |-> "Injected", options |-> EmptyMap]

----------------------------------------------------------------------------
(* Initial values of the codec and thread variables (set further below) *)

NoRes == [op |-> "none", exc |-> NoExc]

----------------------------------------------------------------------------
(* Operations on the Settings object, one call each *)

codecIdle == UNCHANGED <<env, hashLog>>
threadsIdle == UNCHANGED <<pc, loc, gen>>

Register(json) ==
    /\ dict' = register(dict, json)
    /\ res' = [op |-> "register", exc |-> NoExc]
    /\ prevCache' = Cache(dict)
    /\ fresh' = FALSE
    /\ codecIdle
    /\ threadsIdle

ResetSettingsToDefault ==
    /\ dict' = reset_settings_to_default(dict)
    /\ res' = [op |-> "reset", exc |-> NoExc]
    /\ prevCache' = Cache(dict)
    /\ fresh' = TRUE
    /\ codecIdle
    /\ threadsIdle

StandbyCommittee ==
    LET r == standby_committee(dict) IN
    /\ dict' = r.dict
    /\ res' = [op |-> "standby_committee", exc |-> r.exc, value |-> r.value,
               fresh |-> fresh]
    /\ prevCache' = Cache(dict)
    /\ fresh' = FALSE
    /\ codecIdle
    /\ threadsIdle

StandbyValidators ==
    LET r == standby_validators(dict) IN
    /\ dict' = r.dict
    /\ res' = [op |-> "standby_validators", exc |-> r.exc, value |-> r.value]
    /\ prevCache' = Cache(dict)
    /\ fresh' = FALSE
    /\ codecIdle
    /\ threadsIdle

\* settings.db = <backend instance>, the injection the property database looks for
SetDb ==
    /\ dict' = Update(dict, "db" :> InjectedDb)
    /\ res' = [op |-> "set_db", exc |-> NoExc]
    /\ prevCache' = Cache(dict)
    /\ UNCHANGED fresh
    /\ codecIdle
    /\ threadsIdle

Database(ctor_ok) ==
    LET r == database(dict, ctor_ok) IN
    /\ res' = [op |-> "database", exc |-> r.exc, value |-> r.value, ctor_ok |-> ctor_ok]
    /\ prevCache' = Cache(dict)
    /\ UNCHANGED <<dict, fresh>>
    /\ codecIdle
    /\ threadsIdle

----------------------------------------------------------------------------
(* serialization.BinaryWriter / BinaryReader, UInt256 and Witness on byte      *)
(* sequences.  A read returns [ok, val, pos]: pos is the next byte to read.    *)

UInt256Size == 32

U16LE(n) == <<n % 256, (n \div 256) % 256>>
U32LE(n) == <<n % 256, (n \div 256) % 256, (n \div 65536) % 256, (n \div 16777216) % 256>>

\* the values written in this model are within the width of their field
write_uint8(n) == <<n>>
write_uint32(n) == U32LE(n)

write_var_int(n) ==
    IF n < 253 THEN <<n>>
    ELSE IF n <= 65535 THEN <<253>> \o U16LE(n)
    ELSE <<254>> \o U32LE(n)

write_var_bytes(b) == write_var_int(Len(b)) \o b

ReadFail(pos) == [ok |-> FALSE, val |-> 0, pos |-> pos]

read_bytes(b, pos, n) ==
    IF pos + n - 1 <= Len(b)
    THEN [ok |-> TRUE, val |-> SubSeq(b, pos, pos + n - 1), pos |-> pos + n]
    ELSE ReadFail(pos)

read_uint8(b, pos) ==
    IF pos <= Len(b) THEN [ok |-> TRUE, val |-> b[pos], pos |-> pos + 1]
    ELSE ReadFail(pos)

read_uint16(b, pos) ==
    IF pos + 1 <= Len(b)
    THEN [ok |-> TRUE, val |-> b[pos] + 256 * b[pos + 1], pos |-> pos + 2]
    ELSE ReadFail(pos)

read_uint32(b, pos) ==
    IF pos + 3 <= Len(b)
    THEN [ok |-> TRUE,
          val |-> b[pos] + 256 * b[pos + 1] + 65536 * b[pos + 2] + 16777216 * b[pos + 3],
          pos |-> pos + 4]
    ELSE ReadFail(pos)

\* a 64-bit length is longer than any buffer of the model: the read of the bytes
\* that follow fails, as the read of the length does here
read_var_int(b, pos) ==
    LET fb == read_uint8(b, pos) IN
    IF ~fb.ok THEN fb
    ELSE IF fb.val = 253 THEN read_uint16(b, fb.pos)
    ELSE IF fb.val = 254 THEN read_uint32(b, fb.pos)
    ELSE IF fb.val = 255 THEN ReadFail(pos)
    ELSE fb

read_var_bytes(b, pos) ==
    LET n == read_var_int(b, pos) IN
    IF ~n.ok THEN n ELSE read_bytes(b, n.pos, n.val)

Zero256 == [i \in 1..UInt256Size |-> 0]
Hash1 == [i \in 1..UInt256Size |-> i]

EmptyWitness == [invocation_script |-> <<>>, verification_script |-> <<>>]
Witness1 == [invocation_script |-> <<64, 1>>, verification_script |-> <<33>>]

\* Witness.serialize
witness_serialize(w) ==
    write_var_bytes(w.invocation_script) \o write_var_bytes(w.verification_script)

\* reader.read_serializable(payloads.Witness)
read_witness(b, pos) ==
    LET i == read_var_bytes(b, pos) IN
    IF ~i.ok THEN i
    ELSE LET v == read_var_bytes(b, i.pos) IN
        IF ~v.ok THEN v
        ELSE [ok |-> TRUE,
              val |-> [invocation_script |-> i.val, verification_script |-> v.val],
              pos |-> v.pos]

ReadError == Exc("ValueError", "could not read from stream")

----------------------------------------------------------------------------
(* ConsensusPayload *)

\* _serializable_init: cls(0, UInt256.zero(), 0, 0, b'', Witness(b'', b''))
_serializable_init ==
    [version |-> 0, prev_hash |-> Zero256, block_index |-> 0, validator_index |-> 0,
     data |-> <<>>, witness |-> EmptyWitness]

\* serialize_unsigned without the validator index
serialize_unsigned_no_index(self) ==
    write_uint32(self.version) \o self.prev_hash \o write_uint32(self.block_index)
        \o write_var_bytes(self.data)

serialize_unsigned(self) ==
    write_uint32(self.version) \o self.prev_hash \o write_uint32(self.block_index)
        \o write_uint8(self.validator_index) \o write_var_bytes(self.data)

\* serialize writing the witness before the validation byte
serialize_swapped(self) ==
    serialize_unsigned(self) \o witness_serialize(self.witness) \o write_uint8(1)

serialize(self) ==
    serialize_unsigned(self) \o write_uint8(1) \o witness_serialize(self.witness)

CountError == Exc("ValueError", "Deserialization error - validator index exceeds validator count")
ValidationByteError == Exc("ValueError", "Deserialization error - validation byte not 1")

\* settings.network.validators_count: [exc, value]
validators_count(d) ==
    IF "network" \notin DOMAIN d
        THEN [exc |-> Exc("AttributeError", "network"), value |-> 0]
    ELSE IF ~HasAttr(d["network"], "validators_count")
        THEN [exc |-> Exc("AttributeError", "validators_count"), value |-> 0]
    ELSE [exc |-> NoExc, value |-> d["network"].items["validators_count"]]

\* line 141 compared with > instead of >=
index_exceeds_gt(validator_index, count) == validator_index > count

\* if self.validator_index >= settings.network.validators_count
index_exceeds(validator_index, count) == validator_index >= count

\* deserialize_unsigned from byte pos on; the fields are assigned one by one as
\* they are read: [self, exc, pos]
deserialize_unsigned(self, b, pos, d) ==
    LET r1 == read_uint32(b, pos) IN
    IF ~r1.ok THEN [self |-> self, exc |-> ReadError, pos |-> pos]
    ELSE LET s1 == [self EXCEPT !.version = r1.val]
             r2 == read_bytes(b, r1.pos, UInt256Size) IN
    IF ~r2.ok THEN [self |-> s1, exc |-> ReadError, pos |-> r1.pos]
    ELSE LET s2 == [s1 EXCEPT !.prev_hash = r2.val]
             r3 == read_uint32(b, r2.pos) IN
    IF ~r3.ok THEN [self |-> s2, exc |-> ReadError, pos |-> r2.pos]
    ELSE LET s3 == [s2 EXCEPT !.block_index = r3.val]
             r4 == read_uint8(b, r3.pos) IN
    IF ~r4.ok THEN [self |-> s3, exc |-> ReadError, pos |-> r3.pos]
    ELSE LET s4 == [s3 EXCEPT !.validator_index = r4.val]
             vc == validators_count(d) IN
    IF vc.exc # NoExc THEN [self |-> s4, exc |-> vc.exc, pos |-> r4.pos]
    ELSE IF index_exceeds(s4.validator_index, vc.value)
        THEN [self |-> s4, exc |-> CountError, pos |-> r4.pos]
    ELSE LET r5 == read_var_bytes(b, r4.pos) IN
    IF ~r5.ok THEN [self |-> s4, exc |-> ReadError, pos |-> r4.pos]
    ELSE [self |-> [s4 EXCEPT !.data = r5.val], exc |-> NoExc, pos |-> r5.pos]

\* line 126 rejecting the byte 0 only
validation_byte_bad_zero(v) == v = 0

\* if reader.read_uint8() != 1
validation_byte_bad(v) == v # 1

\* deserialize: [self, exc]
deserialize(self, b, d) ==
    LET u == deserialize_unsigned(self, b, 1, d) IN
    IF u.exc # NoExc THEN [self |-> u.self, exc |-> u.exc]
    ELSE LET v == read_uint8(b, u.pos) IN
    IF ~v.ok THEN [self |-> u.self, exc |-> ReadError]
    ELSE IF validation_byte_bad(v.val) THEN [self |-> u.self, exc |-> ValidationByteError]
    ELSE LET w == read_witness(b, v.pos) IN
    IF ~w.ok THEN [self |-> u.self, exc |-> ReadError]
    ELSE [self |-> [u.self EXCEPT !.witness = w.val], exc |-> NoExc]

\* hashlib.sha256(hashlib.sha256(data).digest()).digest() as a value named by its
\* input (no two inputs of the model share a digest)
Sha256d(data) == [sha256d |-> data]

\* hash: [exc, value]
hash(self, d) ==
    IF "network" \notin DOMAIN d
        THEN [exc |-> Exc("AttributeError", "network"), value |-> Sha256d(<<>>)]
    ELSE IF ~HasAttr(d["network"], "magic")
        THEN [exc |-> Exc("AttributeError", "magic"), value |-> Sha256d(<<>>)]
    ELSE [exc |-> NoExc,
          value |-> Sha256d(write_uint32(d["network"].items["magic"])
                              \o serialize_unsigned(self))]

\* to_script_hash(contracts.Contract.create_signature_redeemscript(public_key))
ScriptHash(public_key) == [script_hash |-> [signature_redeemscript |-> public_key]]

OutOfRange == Exc("ValueError", "Validator index is out of range")

\* get_script_hashes_for_verifying; validators = get_next_block_validators(snapshot)
get_script_hashes_for_verifying(self, validators) ==
    IF Len(validators) < self.validator_index THEN [exc |-> OutOfRange, value |-> <<>>]
    ELSE IF self.validator_index >= Len(validators)
        THEN [exc |-> Exc("IndexError", "list index out of range"), value |-> <<>>]
    ELSE [exc |-> NoExc, value |-> <<ScriptHash(validators[self.validator_index + 1])>>]

----------------------------------------------------------------------------
(* Envelopes and wire inputs of the model *)

Datas == UNION {[1..n -> {1}] : n \in 0..MaxData}

AllChanged ==
    [version |-> 16909060, prev_hash |-> Hash1, block_index |-> 258,
     validator_index |-> 1, data |-> <<1>>, witness |-> Witness1]

\* the default envelope, every envelope differing from it in one field, and one
\* differing in all
EnvSet ==
    {_serializable_init, AllChanged,
     [_serializable_init EXCEPT !.version = 16909060],
     [_serializable_init EXCEPT !.prev_hash = Hash1],
     [_serializable_init EXCEPT !.block_index = 258],
     [_serializable_init EXCEPT !.witness = Witness1]}
    \cup {[_serializable_init EXCEPT !.validator_index = i] : i \in 0..MaxIndex}
    \cup {[_serializable_init EXCEPT !.data = x] : x \in Datas}

UnsignedFields(e) ==
    <<e.version, e.prev_hash, e.block_index, e.validator_index, e.data>>

\* position of the validation byte in serialize(e)
VPos(e) == Len(serialize_unsigned(e)) + 1

BadBytes == {0, 2}

\* what a peer may send for envelope e: its serialized form, that form with
\* another validation byte, that form cut short
SignedInputs(e) ==
    {[kind |-> "intact", of |-> e, bytes |-> serialize(e)]}
    \cup {[kind |-> "vbyte", of |-> e, bytes |-> [serialize(e) EXCEPT ![VPos(e)] = v]]
            : v \in BadBytes}
    \cup {[kind |-> "truncated", of |-> e, bytes |-> SubSeq(serialize(e), 1, n)]
            : n \in {2, VPos(e) - 1, VPos(e), Len(serialize(e)) - 1}}

UnsignedInputs(e) ==
    {[kind |-> "intact", of |-> e, bytes |-> serialize(e)],
     [kind |-> "unsigned", of |-> e, bytes |-> serialize_unsigned(e)],
     [kind |-> "truncated", of |-> e, bytes |-> SubSeq(serialize_unsigned(e), 1, VPos(e) - 2)]}

AllSignedInputs == UNION {SignedInputs(e) : e \in EnvSet}

AllUnsignedInputs == UNION {UnsignedInputs(e) : e \in EnvSet}

\* documents merged while envelopes are processed
CountOnlyDoc == Dict([network |-> Dict([validators_count |-> 1])])

CodecDocs ==
    {NetworkDoc(DefaultMagic, c, <<DefaultKey>>) : c \in 0..MaxCount} \cup {MagicOnlyDoc}

HashDocs == {NetworkDoc(7, 1, <<DefaultKey>>), MagicOnlyDoc, CountOnlyDoc}

Points == {ECPoint(DefaultKey), ECPoint(Key2)}

ValidatorLists == UNION {[1..n -> Points] : n \in 0..MaxValidators}

----------------------------------------------------------------------------
(* Operations on the envelope, one call each *)

storeIdle == UNCHANGED <<dict, prevCache, fresh>>

\* ConsensusPayload(version, prev_hash, block_index, validator_index, data, witness)
Assemble(e) ==
    /\ env' = e
    /\ res' = [op |-> "init", exc |-> NoExc]
    /\ storeIdle
    /\ threadsIdle
    /\ UNCHANGED hashLog

Deserialize(input) ==
    LET r == deserialize(env, input.bytes, dict) IN
    /\ env' = r.self
    /\ res' = [op |-> "deserialize", exc |-> r.exc, before |-> env, input |-> input]
    /\ storeIdle
    /\ threadsIdle
    /\ UNCHANGED hashLog

DeserializeUnsigned(input) ==
    LET r == deserialize_unsigned(env, input.bytes, 1, dict) IN
    /\ env' = r.self
    /\ res' = [op |-> "deserialize_unsigned", exc |-> r.exc, before |-> env,
               input |-> input]
    /\ storeIdle
    /\ threadsIdle
    /\ UNCHANGED hashLog

GetScriptHashesForVerifying(validators) ==
    LET r == get_script_hashes_for_verifying(env, validators) IN
    /\ res' = [op |-> "get_script_hashes_for_verifying", exc |-> r.exc,
               value |-> r.value, validators |-> validators,
               validator_index |-> env.validator_index]
    /\ UNCHANGED env
    /\ storeIdle
    /\ threadsIdle
    /\ UNCHANGED hashLog

NoHash == [present |-> FALSE]

Hash ==
    LET r == hash(env, dict) IN
    /\ res' = [op |-> "hash", exc |-> r.exc, value |-> r.value]
    /\ hashLog' = IF r.exc # NoExc THEN hashLog
                  ELSE [prev |-> hashLog.cur,
                        cur |-> [present |-> TRUE, env |-> env,
                                 magic |-> dict["network"].items["magic"],
                                 value |-> r.value]]
    /\ UNCHANGED env
    /\ storeIdle
    /\ threadsIdle

----------------------------------------------------------------------------
(* Threads: standby_committee, reset_settings_to_default and register at the  *)
(* grain of the interpreter, which may switch threads between any two reads   *)
(* or writes of an attribute (the source takes no lock)                       *)

Admin == 0
Readers == 1..NumReaders
Threads == {Admin} \cup Readers

\* what the threads leave alone
sequentialIdle == UNCHANGED <<env, hashLog, prevCache, fresh>>

NoLoc == [points |-> <<>>, resets |-> 0, quiet |-> FALSE]

ConcDocs == {NetworkDoc(DefaultMagic, 2, <<Key2Upper, DefaultKey>>)}

\* line 123: if self._cached_standby_committee is None
ReaderBegin(t) ==
    /\ pc[t] = "idle"
    /\ pc' = [pc EXCEPT ![t] = IF Cache(dict).present THEN "return" ELSE "decode"]
    /\ loc' = [loc EXCEPT ![t] = [points |-> <<>>, resets |-> gen.resets,
                                  quiet |-> pc[Admin] # "reset_update"]]
    /\ UNCHANGED <<dict, res, gen>>
    /\ sequentialIdle

\* lines 124-126: the loop over self.network.standby_committee
ReaderDecode(t) ==
    /\ pc[t] = "decode"
    /\ LET r == decode_committee(dict) IN
        IF r.exc # NoExc
        THEN /\ pc' = [pc EXCEPT ![t] = "idle"]
             /\ res' = [op |-> "standby_committee", thread |-> t, exc |-> r.exc,
                        none |-> FALSE, value |-> <<>>, after_reset |-> FALSE,
                        valid |-> gen.valid]
             /\ UNCHANGED loc
        ELSE /\ pc' = [pc EXCEPT ![t] = "store"]
             /\ loc' = [loc EXCEPT ![t].points = r.value]
             /\ UNCHANGED res
    /\ UNCHANGED <<dict, gen>>
    /\ sequentialIdle

\* line 127: self._cached_standby_committee = points
ReaderStore(t) ==
    /\ pc[t] = "store"
    /\ dict' = Update(dict, CacheKey :> loc[t].points)
    /\ pc' = [pc EXCEPT ![t] = "return"]
    /\ UNCHANGED <<loc, res, gen>>
    /\ sequentialIdle

\* line 128: return self._cached_standby_committee (None when a reset cleared it)
ReaderReturn(t) ==
    /\ pc[t] = "return"
    /\ pc' = [pc EXCEPT ![t] = "idle"]
    /\ res' = [op |-> "standby_committee", thread |-> t, exc |-> NoExc,
               none |-> ~Cache(dict).present, value |-> Cache(dict).value,
               after_reset |-> /\ loc[t].resets > 0
                               /\ loc[t].quiet
                               /\ loc[t].resets = gen.resets
                               /\ pc[Admin] # "reset_update",
               valid |-> gen.valid]
    /\ UNCHANGED <<dict, loc, gen>>
    /\ sequentialIdle

\* line 151: self.__dict__.clear()
AdminResetClear ==
    /\ pc[Admin] = "idle"
    /\ gen.resets < MaxResets
    /\ dict' = EmptyMap
    /\ pc' = [pc EXCEPT ![Admin] = "reset_update"]
    /\ UNCHANGED <<loc, res, gen>>
    /\ sequentialIdle

\* line 152: self.__dict__.update(self.from_json(self.default_settings).__dict__)
AdminResetUpdate ==
    /\ pc[Admin] = "reset_update"
    /\ dict' = Update(dict, from_json(default_settings))
    /\ pc' = [pc EXCEPT ![Admin] = "idle"]
    /\ gen' = [gen EXCEPT !.resets = @ + 1, !.valid = {<<ECPoint(DefaultKey)>>}]
    /\ UNCHANGED <<loc, res>>
    /\ sequentialIdle

\* line 104: self.__dict__.update(json)
AdminRegisterUpdate(json) ==
    /\ pc[Admin] = "idle"
    /\ gen.registers < MaxRegisters
    /\ dict' = Update(dict, json.items)
    /\ pc' = [pc EXCEPT ![Admin] = "register_convert"]
    /\ gen' = [gen EXCEPT !.registers = @ + 1,
                          !.valid = @ \cup {decode_committee(from_json(json)).value}]
    /\ UNCHANGED <<loc, res>>
    /\ sequentialIdle

\* line 105: self._convert(self.__dict__, self.__dict__)
AdminRegisterConvert ==
    /\ pc[Admin] = "register_convert"
    /\ dict' = _convert(dict)
    /\ pc' = [pc EXCEPT ![Admin] = "idle"]
    /\ UNCHANGED <<loc, res, gen>>
    /\ sequentialIdle

----------------------------------------------------------------------------
(* Specifications *)

InitRest ==
    /\ env = _serializable_init
    /\ res = NoRes
    /\ prevCache = Cache(dict)
    /\ fresh = FALSE
    /\ hashLog = [prev |-> NoHash, cur |-> NoHash]
    /\ pc = [t \in Threads |-> "idle"]
    /\ loc = [t \in Threads |-> NoLoc]
    /\ gen = [resets |-> 0, registers |-> 0, valid |-> {<<ECPoint(DefaultKey)>>}]

\* a Settings object constructed by from_json
Init ==
    /\ dict \in {from_json(json) : json \in InitDocs}
    /\ InitRest

\* the module's settings object: Settings.from_json(Settings.default_settings)
InitSettings ==
    /\ dict = from_json(default_settings)
    /\ InitRest

\* the Settings object alone
Next ==
    \/ \E json \in NetworkDocs \cup StorageDocs : Register(json)
    \/ ResetSettingsToDefault
    \/ StandbyCommittee
    \/ StandbyValidators
    \/ SetDb
    \/ \E ctor_ok \in BOOLEAN : Database(ctor_ok)

Spec == Init /\ [][Next]_vars

\* envelopes decoded against the settings
CodecNext ==
    \/ \E json \in CodecDocs : Register(json)
    \/ ResetSettingsToDefault
    \/ \E e \in EnvSet : Assemble(e)
    \/ \E input \in AllSignedInputs : Deserialize(input)
    \/ \E input \in AllUnsignedInputs : DeserializeUnsigned(input)
    \/ \E validators \in ValidatorLists : GetScriptHashesForVerifying(validators)

CodecSpec == InitSettings /\ [][CodecNext]_vars

\* envelopes hashed against the settings
HashNext ==
    \/ \E json \in HashDocs : Register(json)
    \/ ResetSettingsToDefault
    \/ \E e \in EnvSet : Assemble(e)
    \/ Hash

HashSpec == InitSettings /\ [][HashNext]_vars

\* threads sharing the settings
ConcNext ==
    \/ \E t \in Readers : ReaderBegin(t)
    \/ \E t \in Readers : ReaderDecode(t)
    \/ \E t \in Readers : ReaderStore(t)
    \/ \E t \in Readers : ReaderReturn(t)
    \/ AdminResetClear
    \/ AdminResetUpdate
    \/ \E json \in ConcDocs : AdminRegisterUpdate(json)
    \/ AdminRegisterConvert

ConcSpec == InitSettings /\ [][ConcNext]_vars

----------------------------------------------------------------------------
(* Claims *)

WellFormed(input) == input.kind \in {"intact", "unsigned"}

\* C1: get_script_hashes_for_verifying fails with "Validator index is out of
\* range" whenever validator_index >= len(validators), the boundary
\* validator_index = len(validators) included, and returns the one script hash
\* of validators[validator_index] only when validator_index < len(validators).
C1_OutOfRangeRejected ==
    res.op = "get_script_hashes_for_verifying" =>
        /\ res.validator_index >= Len(res.validators) => res.exc = OutOfRange
        /\ res.exc = NoExc =>
            /\ res.validator_index < Len(res.validators)
            /\ res.value = <<ScriptHash(res.validators[res.validator_index + 1])>>

\* C2: a deserialize that fails leaves every field of the envelope as it was
\* before the call.
C2_DeserializeAllOrNothing ==
    (res.op = "deserialize" /\ res.exc # NoExc) => env = res.before

\* C3: on well-formed bytes deserialize_unsigned succeeds exactly when the
\* decoded validator_index is below settings.network.validators_count as it
\* stands at the call, and fails with the validator-count error otherwise.
C3_IndexBoundIsLive ==
    (/\ res.op = "deserialize_unsigned"
     /\ WellFormed(res.input)
     /\ validators_count(dict).exc = NoExc) =>
        /\ res.exc = NoExc <=>
            res.input.of.validator_index < validators_count(dict).value
        /\ res.exc # NoExc => res.exc = CountError
        /\ res.exc = NoExc => UnsignedFields(env) = UnsignedFields(res.input.of)

\* C3 witness: after a register that raised validators_count to 2, the index 2
\* is refused.
C3_BoundaryRefused ==
    /\ res.op = "deserialize_unsigned"
    /\ WellFormed(res.input)
    /\ validators_count(dict).exc = NoExc
    /\ validators_count(dict).value = 2
    /\ res.input.of.validator_index = 2
    /\ res.exc = CountError

\* C4 as stated: a signed envelope whose validation byte is not 1 fails with
\* "validation byte not 1" whatever its other fields hold.
C4_BadByteAlwaysFormatError ==
    (/\ res.op = "deserialize"
     /\ res.input.kind = "vbyte"
     /\ validators_count(dict).exc = NoExc) =>
        res.exc = ValidationByteError

\* C4 amended: a signed envelope whose validation byte is not 1 always fails;
\* it fails with "validation byte not 1" exactly when its validator_index is
\* below validators_count, and with the validator-count error when the index
\* is not below it.
C4_BadByteFails ==
    (res.op = "deserialize" /\ res.input.kind = "vbyte") =>
        /\ res.exc # NoExc
        /\ validators_count(dict).exc = NoExc =>
            /\ res.exc = ValidationByteError <=>
                res.input.of.validator_index < validators_count(dict).value
            /\ res.input.of.validator_index >= validators_count(dict).value =>
                res.exc = CountError

\* C4 witness: a bad validation byte behind a valid unsigned body is refused
\* for the byte.
C4_BadByteSeen ==
    /\ res.op = "deserialize"
    /\ res.input.kind = "vbyte"
    /\ res.input.bytes[VPos(res.input.of)] = 2
    /\ res.exc = ValidationByteError

\* C5: serialize then deserialize, with validator_index below validators_count,
\* gives back the envelope field for field, and the serialized form is the
\* unsigned body, the byte 1, the witness.
C5_RoundTrip ==
    (/\ res.op = "deserialize"
     /\ res.input.kind = "intact"
     /\ validators_count(dict).exc = NoExc
     /\ res.input.of.validator_index < validators_count(dict).value) =>
        /\ res.exc = NoExc
        /\ env = res.input.of
        /\ res.input.bytes = serialize_unsigned(res.input.of) \o <<1>>
                                \o witness_serialize(res.input.of.witness)

\* C5 witness: a default-constructed envelope has taken every field of another
\* envelope from its serialized form.
C5_RoundTripSeen ==
    /\ res.op = "deserialize"
    /\ res.input.kind = "intact"
    /\ res.before = _serializable_init
    /\ res.input.of = AllChanged
    /\ res.exc = NoExc
    /\ env = AllChanged

BothHashed == hashLog.prev.present /\ hashLog.cur.present

\* C6 as stated: two hash() calls on an envelope with the same fields give the
\* same hash, whatever happened to the settings in between.
C6_HashStableAcrossSettings ==
    (BothHashed /\ hashLog.cur.env = hashLog.prev.env) =>
        hashLog.cur.value = hashLog.prev.value

\* C6 amended: two hash() calls give the same hash exactly when the unsigned
\* fields are the same at both calls and settings.network.magic is the same at
\* both calls; the witness has no part in it.
C6_HashOfUnsignedAndMagic ==
    BothHashed =>
        (hashLog.cur.value = hashLog.prev.value <=>
            /\ UnsignedFields(hashLog.cur.env) = UnsignedFields(hashLog.prev.env)
            /\ hashLog.cur.magic = hashLog.prev.magic)

\* C6 witness: the witness alone changed between two calls and the hash did not.
C6_WitnessChangeSeen ==
    /\ BothHashed
    /\ hashLog.cur.env.witness # hashLog.prev.env.witness
    /\ UnsignedFields(hashLog.cur.env) = UnsignedFields(hashLog.prev.env)
    /\ hashLog.cur.value = hashLog.prev.value

\* C7: standby_validators returns the first validators_count entries of
\* standby_committee when validators_count <= len(standby_committee), and
\* fails when validators_count > len(standby_committee).
C7_ValidatorsPrefixOrFailure ==
    (/\ res.op = "standby_validators"
     /\ Cache(dict).present
     /\ validators_count(dict).exc = NoExc) =>
        LET n == validators_count(dict).value
            committee == Cache(dict).value IN
        /\ n <= Len(committee) => (res.exc = NoExc /\ res.value = SubSeq(committee, 1, n))
        /\ n > Len(committee) => res.exc # NoExc

C9_DatabaseNeverRaises ==
    res.op = "database" =>
        /\ res.exc = NoExc
        /\ "db" \in DOMAIN dict => res.value = dict["db"]
        /\ ("db" \notin DOMAIN dict /\ "storage" \in DOMAIN dict
                /\ HasAttr(dict["storage"], "use_default")
                /\ ~dict["storage"].items["use_default"]) => res.value = None
        /\ database_try(dict, res.ctor_ok).exc # NoExc => res.value = None

\* C9 witness: the configured class cannot be resolved and the call returns None.
C9_ResolutionFailureSeen ==
    /\ res.op = "database"
    /\ database_try(dict, res.ctor_ok).exc.type = "ValueError"
    /\ res.value = None

\* C10: a standby_committee call made after reset_settings_to_default has
\* completed returns a committee configured since that reset, never one decoded
\* from the configuration the reset replaced.
C10_NoPreResetCommittee ==
    (res.op = "standby_committee" /\ res.exc = NoExc /\ res.after_reset) =>
        (~res.none /\ res.value \in res.valid)

====
